---- MODULE Spec2Model ----
(***************************************************************************)
(* Model of the agent execution engine of OpenQuest:                       *)
(*   backend/app/services/agent_service.py   (AgentService)                *)
(*   backend/app/controllers/agent_controller.py (SSE event generators)    *)
(* One run of POST /agent/analyze or POST /agent/implement is one          *)
(* behaviour.  The LLM endpoint, the E2B sandbox, the git-hosting API and  *)
(* the session store are collaborators: each of their answers is a         *)
(* nondeterministic choice taken at the point where the code calls them.   *)
(* Texts whose length or prefix the code inspects are sequences of         *)
(* one-character strings.                                                  *)
(***************************************************************************)
EXTENDS Integers, Sequences, FiniteSets, TLC

(***************************** bounds **************************************)
\* largest agent_max_turns explored
MaxTurns == 3
\* largest number of tool calls in one LLM response
MaxCalls == 2
\* largest number of tool calls executed in one run
MaxToolCalls == 2
\* largest number of segments of a text given to the parser
MaxSegments == 2
\* largest length of a text given to the truncation
MaxLen == 10
\* largest agent_max_tokens_per_tool given to the truncation
MaxBudget == 2
\* largest reading of the clock in the life of a session
MaxTime == 3
\* largest number of requests made on a session
MaxRequests == 2
\* largest number of comments_to_add entries given to the comment loop
MaxComments == 2
\* largest line_number of an entry given to the comment loop
MaxLine == 3

(************************* program constants *******************************)
\* Settings.agent_max_tokens_per_tool default
DefaultMaxTokensPerTool == 8000
\* result[:500] in the result-bearing tool event
StreamCap == 500
\* self.max_tokens_per_tool * 4
CharsPerToken == 4
\* timedelta(hours=1), in ticks of the clock
TimeToLive == 1

(***************************** texts ***************************************)
ErrorPrefix == <<"E","r","r","o","r",":"," ">>
ToolQuote == <<"T","o","o","l"," ","'">>
FailedInfix == <<"'"," ","f","a","i","l","e","d",":"," ">>
UnknownToolText == <<"U","n","k","n","o","w","n"," ","t","o","o","l",":"," ">>
NotInitializedText == <<"S","a","n","d","b","o","x"," ","n","o","t"," ","i","n","i","t","i","a","l","i","z","e","d">>
TruncHead == <<"\n","\n",".",".","."," ","[","T","R","U","N","C","A","T","E","D"," ","-"," ","o","r","i","g","i","n","a","l"," ","l","e","n","g","t","h",":"," ">>
TruncTail == <<" ","c","h","a","r","s","]"," ",".",".",".","\n","\n">>
Ellipsis == <<".",".",".">>
NoMatchesText == <<"N","o"," ","m","a","t","c","h","e","s"," ","f","o","u","n","d">>
NoFilesText == <<"N","o"," ","f","i","l","e","s"," ","f","o","u","n","d">>
ExitCodeText == <<"E","x","i","t"," ","c","o","d","e",":"," ">>
StdoutText == <<"S","t","d","o","u","t",":","\n">>
StderrText == <<"S","t","d","e","r","r",":","\n">>
WrittenText == <<"S","u","c","c","e","s","s","f","u","l","l","y"," ","w","r","i","t","t","e","n"," ","t","o"," ">>
Newline == <<"\n">>

\* texts the collaborators answer with
BoomText == <<"b","o","o","m">>
ShortText == <<"o","k">>
LongText == [k \in 1..(StreamCap + 1) |-> "x"]
PathText == <<"a",".","p","y">>

\* the characters of a tool name
NameChars(name) ==
  CASE name = "read_file" -> <<"r","e","a","d","_","f","i","l","e">>
    [] name = "list_files" -> <<"l","i","s","t","_","f","i","l","e","s">>
    [] name = "search_code" -> <<"s","e","a","r","c","h","_","c","o","d","e">>
    [] name = "run_command" -> <<"r","u","n","_","c","o","m","m","a","n","d">>
    [] name = "get_file_tree" -> <<"g","e","t","_","f","i","l","e","_","t","r","e","e">>
    [] name = "write_file" -> <<"w","r","i","t","e","_","f","i","l","e">>
    [] OTHER -> <<"b","o","g","u","s">>

\* str(n) for an integer n
RECURSIVE NatDigits(_)
NatDigits(n) ==
  LET d == <<"0","1","2","3","4","5","6","7","8","9">>[(n % 10) + 1]
  IN IF n < 10 THEN <<d>> ELSE NatDigits(n \div 10) \o <<d>>

IntStr(n) == IF n < 0 THEN <<"-">> \o NatDigits(0 - n) ELSE NatDigits(n)

\* Python text[:k]
SliceTo(text, k) ==
  LET n == Len(text)
      e == IF k >= 0 THEN (IF k < n THEN k ELSE n)
                     ELSE (IF n + k > 0 THEN n + k ELSE 0)
  IN SubSeq(text, 1, e)

\* Python text[k:]
SliceFrom(text, k) ==
  LET n == Len(text)
      s == IF k >= 0 THEN (IF k < n THEN k ELSE n)
                     ELSE (IF n + k > 0 THEN n + k ELSE 0)
  IN SubSeq(text, s + 1, n)

\* text starts with prefix
StartsWith(text, prefix) ==
  /\ Len(text) >= Len(prefix)
  /\ SubSeq(text, 1, Len(prefix)) = prefix


\* str.strip() leaves nothing
IsBlank(text) == \A k \in 1..Len(text) : text[k] \in {" ", "\n", "\t"}

(***************************** state ***************************************)
VARIABLES
  mode,                 \* "analyze" (POST /agent/analyze) or "implement"
  max_turns,            \* AgentService.max_turns
  max_tokens_per_tool,  \* AgentService.max_tokens_per_tool
  pc,                   \* position of the controller/service generator pair
  events,               \* the SSE events delivered to the caller, in order
  ops,                  \* the calls made on the collaborators, in order
  sandbox,              \* AgentService.sandbox: "none" or "live"
  messages,             \* the message history of the Analysis Loop
  turn,                 \* loop variable of the Analysis Loop (0-based)
  response,             \* the LLM response of the current turn
  tool_calls,           \* parse_tool_calls(response)
  idx,                  \* 1-based position in tool_calls
  tool_results,         \* tool-role messages collected in the current turn
  raised,               \* the exception raised in the run, if any
  propagating,          \* the exception is travelling up the generators
  comments,             \* solution["comments_to_add"] of the implementation run
  cidx,                 \* 1-based position in comments
  success,              \* `success` of implement_solution.event_generator
  status,               \* the stored status of the session
  fn_arg,               \* the argument of a function applied on its own
  fn_ret,               \* what the function returned
  logs,                 \* the log records of the implementation run's clone path
  now,                  \* datetime.now(UTC), in ticks
  expires_at,           \* the stored expires_at of the session
  running,              \* the requests whose implementation stream is open
  files                 \* the lines of the files of the cloned repository

vars == <<mode, max_turns, max_tokens_per_tool, pc, events, ops, sandbox,
          messages, turn, response, tool_calls, idx, tool_results, raised,
          propagating, comments, cidx, success, status, fn_arg, fn_ret, logs,
          now, expires_at, running, files>>

loopVars == <<messages, turn, response, tool_calls, idx, tool_results>>
confVars == <<mode, max_turns, max_tokens_per_tool, comments, fn_arg, fn_ret>>
implVars == <<cidx, success>>
sessVars == <<now, expires_at, running>>

\* the names advertised to the LLM
AGENT_TOOLS == {"read_file", "list_files", "search_code", "run_command", "get_file_tree"}

NoName == "<none>"
NoException == [type |-> "none", message |-> ""]

\* str(e): the text of an exception, as a sequence of its parts; the text of
\* a CloneError is kept in parts already
str(e) == IF e.type = "CloneError" THEN e.message ELSE << e.message >>
NoResponse == [finish_reason |-> "none", content |-> <<>>, malformed |-> FALSE, calls |-> <<>>]
ThinkText == <<"h","m">>

SystemMessage == [role |-> "system", content |-> "SYSTEM_PROMPT"]
IssueMessage == [role |-> "user", content |-> "issue"]
ForcedConclusion == [role |-> "user", content |-> "forced_conclusion"]

StatusEvent(step) == [type |-> "status", step |-> step]
ErrorEvent(message) == [type |-> "error", message |-> message]
DoneEvent == [type |-> "done"]

Op(name) == [op |-> name, at |-> Len(events)]

(*********************** tool execution ************************************)
\* AgentService._truncate_output
truncate_output(text) ==
  LET max_chars == max_tokens_per_tool * CharsPerToken
      half == max_chars \div 2
  IN IF Len(text) <= max_chars
       THEN text
       ELSE SliceTo(text, half)
            \o TruncHead \o IntStr(Len(text)) \o TruncTail
            \o SliceFrom(text, 0 - half)

\* ToolExecutionError(name, detail).message
ToolErrorMessage(name, detail) == ToolQuote \o NameChars(name) \o FailedInfix \o detail

Returned(text) == [ok |-> TRUE, text |-> text]
ToolExecutionError(name, detail) == [ok |-> FALSE, text |-> ToolErrorMessage(name, detail)]

\* the value `result` of execute_tool before truncation, for a sandbox that
\* answers sb = [raises, content, exit_code, stdout, stderr]
ToolDispatch(name, inputs, sb) ==
  LET out == IF sb.stdout # <<>> THEN sb.stdout ELSE sb.stderr
  IN CASE name = "read_file" -> sb.content
       [] name = "list_files" -> out
       [] name = "search_code" ->
            IF sb.stdout # <<>> /\ ~IsBlank(sb.stdout) THEN sb.stdout
            ELSE IF sb.exit_code = 1 THEN NoMatchesText
            ELSE IF sb.stderr # <<>> THEN sb.stderr ELSE NoMatchesText
       [] name = "run_command" ->
            ExitCodeText \o IntStr(sb.exit_code) \o Newline
            \o (IF sb.stdout # <<>> THEN StdoutText \o sb.stdout \o Newline ELSE <<>>)
            \o (IF sb.stderr # <<>> THEN StderrText \o sb.stderr ELSE <<>>)
       [] name = "get_file_tree" -> IF sb.stdout # <<>> THEN sb.stdout ELSE NoFilesText
       [] name = "write_file" -> WrittenText \o inputs.path

\* the names execute_tool dispatches
DispatchedTools == {"read_file", "list_files", "search_code", "run_command",
                    "get_file_tree", "write_file"}

\* AgentService.execute_tool
execute_tool(name, inputs, sb) ==
  IF sandbox = "none" THEN ToolExecutionError(name, NotInitializedText)
  ELSE IF name \notin DispatchedTools
    THEN ToolExecutionError(name, UnknownToolText \o NameChars(name))
  ELSE IF sb.raises THEN ToolExecutionError(name, sb.error)
  ELSE Returned(truncate_output(ToolDispatch(name, inputs, sb)))


(*********************** AgentService._parse_solution **********************)
\* A text is a sequence of lexemes.  Beside characters there are the opening
\* fence (three backquotes and the word json), the closing fence (three
\* backquotes), the braces, one lexeme per JSON member (a key with its
\* value), named by its key, and one for a JSON list.
FenceOpen == "<fence json>"
FenceClose == "<fence>"
LBrace == "{"
RBrace == "}"
ListToken == "[1]"
WhiteSpace == {" ", "\n", "\t"}

\* the keys of a Solution
SolutionKeys == {"summary", "root_cause_analysis", "affected_files", "key_insights",
                 "suggested_fix", "comments_to_add", "commit_message"}

MemberTokens == SolutionKeys \cup {"code_changes"}

PlaceholderPath == <<"p","a","t","h","/","t","o","/","f","o","o",".","p","y">>
RealPath == <<"s","r","c","/","a","p","p","/","f","o","o",".","p","y">>
UpperPath == <<"d","o","c","s","/","E","x","a","m","p","l","e",".","p","y">>

\* the entries the model's JSON carries under comments_to_add and code_changes
CommentEntries ==
  << [file |-> PlaceholderPath, line_number |-> 1, comment |-> "# note"],
     [file |-> RealPath, line_number |-> 1, comment |-> "# note"],
     [file |-> <<>>, line_number |-> 1, comment |-> "# note"] >>

ChangeEntries ==
  << [file |-> PlaceholderPath], [file |-> RealPath], [file |-> <<>>],
     [file |-> UpperPath] >>

\* the value of the member a lexeme stands for
MemberValue(key) ==
  CASE key = "comments_to_add" -> CommentEntries
    [] key = "code_changes" -> ChangeEntries
    [] key = "affected_files" -> << RealPath >>
    [] key = "key_insights" -> <<>>
    [] OTHER -> << key >>

UpperLetters == <<"A","B","C","D","E","F","G","H","I","J","K","L","M","N","O","P","Q","R","S","T","U","V","W","X","Y","Z">>
LowerLetters == <<"a","b","c","d","e","f","g","h","i","j","k","l","m","n","o","p","q","r","s","t","u","v","w","x","y","z">>

\* str.lower()
LowerChar(c) ==
  IF \E i \in 1..Len(UpperLetters) : UpperLetters[i] = c
    THEN LowerLetters[CHOOSE i \in 1..Len(UpperLetters) : UpperLetters[i] = c]
    ELSE c

LowerText(text) == [k \in 1..Len(text) |-> LowerChar(text[k])]

\* `pattern in text`
Contains(text, pattern) ==
  \E i \in 1..(Len(text) - Len(pattern) + 1) :
     SubSeq(text, i, i + Len(pattern) - 1) = pattern

\* invalid_patterns
InvalidPatterns ==
  { <<"u","n","k","n","o","w","n","_","f","i","l","e">>,
    <<"p","l","a","c","e","h","o","l","d","e","r">>,
    <<"e","x","a","m","p","l","e">>,
    <<"p","a","t","h","/","t","o","/">> }

\* is_invalid
IsInvalidPath(file_path) ==
  \E pattern \in InvalidPatterns : Contains(LowerText(file_path), pattern)

\* the entries the validation loop keeps
ValidEntries(entries) ==
  SelectSeq(entries, LAMBDA e : e.file # <<>> /\ ~IsInvalidPath(e.file))

\* text without the white space around it
Strip(text) ==
  LET inked == { k \in 1..Len(text) : text[k] \notin WhiteSpace }
  IN IF inked = {} THEN <<>>
     ELSE SubSeq(text, CHOOSE a \in inked : \A k \in inked : a <= k,
                       CHOOSE b \in inked : \A k \in inked : k <= b)

NoJson == [kind |-> "none", value |-> <<>>]

\* json.loads under contextlib.suppress(JSONDecodeError): an object, a list,
\* or nothing when the text is not JSON
json_loads(text) ==
  LET t == Strip(text)
      n == Len(t)
  IN IF /\ n >= 2
        /\ t[1] = LBrace
        /\ t[n] = RBrace
        /\ \A k \in 2..(n - 1) : t[k] \in MemberTokens \cup WhiteSpace
       THEN [kind |-> "object",
             value |-> [key \in { t[k] : k \in 2..(n - 1) } \cap MemberTokens
                          |-> MemberValue(key)]]
     ELSE IF t = << ListToken >> THEN [kind |-> "list", value |-> << 1 >>]
     ELSE NoJson

\* the truth value Python gives a parsed value
Truthy(parsed) ==
  \/ parsed.kind = "list"
  \/ parsed.kind = "object" /\ DOMAIN parsed.value # {}

\* group(1) of re.search(r"```json\s*(.*?)\s*```", text, re.DOTALL); the
\* closing fence is also matched by the first characters of a later opener
FencedGroup(text) ==
  LET opens == { i \in 1..Len(text) : text[i] = FenceOpen }
      i == CHOOSE a \in opens : \A k \in opens : a <= k
      closes == { j \in 1..Len(text) : j > i /\ text[j] \in {FenceOpen, FenceClose} }
      j == CHOOSE b \in closes : \A k \in closes : b <= k
  IN IF opens = {} \/ closes = {}
       THEN [matched |-> FALSE, text |-> <<>>]
       ELSE [matched |-> TRUE, text |-> Strip(SubSeq(text, i + 1, j - 1))]

\* group(0) of re.search(r"\{.*\}", text, re.DOTALL): first `{` to last `}`
BraceSpan(text) ==
  LET lefts == { i \in 1..Len(text) : text[i] = LBrace }
      a == CHOOSE x \in lefts : \A k \in lefts : x <= k
      rights == { j \in 1..Len(text) : j > a /\ text[j] = RBrace }
      b == CHOOSE y \in rights : \A k \in rights : k <= y
  IN IF lefts = {} \/ rights = {}
       THEN [matched |-> FALSE, text |-> <<>>]
       ELSE [matched |-> TRUE, text |-> SubSeq(text, a, b)]

\* the value of `solution` before `if not solution`
ParsedJson(text) ==
  LET fenced == FencedGroup(text)
      first == IF fenced.matched THEN json_loads(fenced.text) ELSE NoJson
      span == BraceSpan(text)
      second == IF span.matched THEN json_loads(span.text) ELSE NoJson
  IN IF Truthy(first) THEN first
     ELSE IF second.kind # "none" THEN second
     ELSE first

\* a fallback that keeps a summary of the text only
DegradedSolutionCut(text) ==
  [summary |-> << "See raw analysis below" >>,
   root_cause_analysis |-> SliceTo(text, 1),
   affected_files |-> <<>>,
   key_insights |-> <<>>,
   suggested_fix |-> <<>>,
   comments_to_add |-> <<>>,
   commit_message |-> << "docs: add issue analysis" >>]

\* the Solution returned when no JSON was found
DegradedSolution(text) ==
  [summary |-> << "See raw analysis below" >>,
   root_cause_analysis |-> text,
   affected_files |-> <<>>,
   key_insights |-> <<>>,
   suggested_fix |-> <<>>,
   comments_to_add |-> <<>>,
   commit_message |-> << "docs: add issue analysis" >>]

\* solution.get("code_changes", [])
CodeChangesOf(solution) ==
  IF "code_changes" \in DOMAIN solution THEN solution["code_changes"] ELSE <<>>

\* the parsed object after `solution["code_changes"] = valid_changes`
Validated(solution) ==
  [key \in DOMAIN solution \cup {"code_changes"} |->
     IF key = "code_changes" THEN ValidEntries(CodeChangesOf(solution))
                             ELSE solution[key]]

\* AgentService._parse_solution: the Solution, or the AttributeError of
\* `.get` on a parsed value that is no object
parse_solution(text) ==
  LET solution == ParsedJson(text)
  IN IF ~Truthy(solution)
       THEN [raises |-> FALSE, solution |-> DegradedSolution(text)]
     ELSE IF solution.kind = "list"
       THEN [raises |-> TRUE, solution |-> <<>>]
     ELSE [raises |-> FALSE, solution |-> Validated(solution.value)]

\* the pieces the texts given to the parser are made of
SolutionObject ==
  << LBrace, "summary", " ", "root_cause_analysis", "affected_files", "key_insights",
     "suggested_fix", "comments_to_add", "commit_message", RBrace >>
ChangesObject == << LBrace, "summary", "code_changes", RBrace >>
EmptyObject == << LBrace, RBrace >>
BrokenObject == << LBrace, "h", RBrace >>
Fenced(body) == << FenceOpen, "\n" >> \o body \o << "\n", FenceClose >>

Segments ==
  { ThinkText, Fenced(SolutionObject), Fenced(ChangesObject), Fenced(BrokenObject),
    Fenced(EmptyObject), Fenced(<< ListToken >>), SolutionObject, ChangesObject,
    << LBrace >>, << FenceOpen >> }

\* the texts of at most n segments
RECURSIVE SegmentTexts(_)
SegmentTexts(n) ==
  IF n = 0 THEN { <<>> }
  ELSE LET shorter == SegmentTexts(n - 1)
       IN shorter \cup { t \o g : t \in shorter, g \in Segments }

\* a text of n characters that tells its positions apart
DigitText(n) == [k \in 1..n |-> <<"0","1","2","3","4","5","6","7","8","9">>[(k % 10) + 1]]

(*********************** collaborators' answers ****************************)
\* what sandbox.files.read / sandbox.commands.run answer to a tool
SandboxAnswers ==
  { [raises |-> FALSE, error |-> <<>>, content |-> t, exit_code |-> 0,
     stdout |-> t, stderr |-> <<>>] : t \in {ShortText, LongText} }
  \cup
  { [raises |-> TRUE, error |-> BoomText, content |-> <<>>, exit_code |-> 1,
     stdout |-> <<>>, stderr |-> <<>>] }

\* the comments_to_add lists of the stored solution: none, one entry that is
\* skipped (line_number 0) and one that is processed
CommentLists ==
  { <<>>,
    << [file |-> "a.py", line_number |-> 0, comment |-> "# note"],
       [file |-> "a.py", line_number |-> 1, comment |-> "# note"] >> }

\* a line of a file: its leading blanks and the rest of it
Line(indent, text) == [indent |-> indent, text |-> text]

\* the files of the cloned repository that comments are aimed at
RepoFiles ==
  [path \in {"a.py"} |-> << Line(0, "def f():"), Line(4, "return 1") >>]

\* max(0, line_number - 1), the 0-based insertion point
insert_idx(line_number) == IF line_number - 1 > 0 THEN line_number - 1 ELSE 0

\* lines.insert(insert_idx, formatted_comment): the comment takes the
\* indentation of the line it is put before
InsertComment(lines, at, comment) ==
  SubSeq(lines, 1, at) \o << Line(lines[at + 1].indent, comment) >>
  \o SubSeq(lines, at + 1, Len(lines))

\* the entry is skipped before anything is read
SkippedEntry(c) == c.file = "" \/ c.comment = "" \/ c.line_number = 0

\* the names the model lets the LLM ask for: an advertised tool, a name that
\* is no tool, and a call without a usable function name or argument object
AskedNames == {"read_file", "bogus", NoName}

RECURSIVE NameSeqs(_)
NameSeqs(n) ==
  IF n = 0 THEN { <<>> }
  ELSE LET shorter == NameSeqs(n - 1)
       IN shorter \cup { Append(q, a) : q \in { x \in shorter : Len(x) = n - 1 },
                                        a \in AskedNames }

\* the tool calls of a response made in turn t with the names q
CallsOf(t, q) ==
  [k \in 1..Len(q) |-> [id |-> <<t, k>>, name |-> q[k], arguments |-> [path |-> PathText]]]

\* the texts of a response of turn t; a response without text is explored in
\* the first turn, where every kind of response occurs
Contents(t) == IF t = 0 THEN { <<>>, ThinkText } ELSE { ThinkText }

\* the texts of a concluding response: prose, a fenced Solution, a fenced
\* block and a brace span that are no JSON, a fenced JSON list; they are
\* explored in responses that stop with at most one tool call
FinalTexts ==
  { ThinkText, Fenced(SolutionObject), ThinkText \o Fenced(BrokenObject),
    Fenced(<< ListToken >>) }

\* the responses generate_with_tools may return in turn t when `room` more
\* tool calls fit into the run's bound; `malformed`: the arguments of one of
\* the calls are not JSON, so that parse_tool_calls raises
LLMResponses(t, room) ==
  { r \in
      { [finish_reason |-> f, content |-> c, malformed |-> m, calls |-> CallsOf(t, q)] :
          f \in {"stop", "tool_calls", "length"},
          c \in Contents(t) \cup FinalTexts,
          m \in BOOLEAN,
          q \in { x \in NameSeqs(MaxCalls) : Len(x) <= room } } :
      /\ r.malformed => r.calls # <<>>
      /\ r.content \in FinalTexts \ Contents(t) =>
            r.finish_reason = "stop" /\ Len(r.calls) <= 1 /\ ~r.malformed }

(***************************** helpers *************************************)
\* a final-turn test that is one turn late
is_final_turn_late == turn = max_turns

\* `turn == self.max_turns - 1`
is_final_turn == turn = max_turns - 1

\* a loop that stops one turn early
HasTurnShort == turn < max_turns - 1

\* `for turn in range(self.max_turns)` has another turn to run
HasTurn == turn < max_turns

\* a history that also carries the prose of a turn that requested no tools
current_messages_with_prose ==
  LET base == IF ops # <<>> /\ ops[Len(ops)].op = "llm"
                THEN Append(messages, [role |-> "assistant",
                                       content |-> ops[Len(ops)].content,
                                       tool_calls |-> <<>>])
                ELSE messages
  IN IF is_final_turn THEN Append(base, ForcedConclusion) ELSE base

\* the messages argument of generate_with_tools
current_messages == IF is_final_turn THEN Append(messages, ForcedConclusion) ELSE messages

\* the tools argument of generate_with_tools
OfferedTools == IF ~is_final_turn THEN AGENT_TOOLS ELSE {}

\* the record of one generate_with_tools call and of how it ended: "error"
\* (it raised), "stop" (finish_reason stop) or "other"
LLMCall(answer, content) ==
  [op |-> "llm", at |-> Len(events), turn |-> turn, messages |-> current_messages,
   tools |-> OfferedTools, answer |-> answer, content |-> content]

\* the thinking event of a response, if it has text
Thinking(r) == IF r.content # <<>> THEN << [type |-> "thinking", content |-> r.content] >> ELSE <<>>

\* a handler that passes the failure text on without the prefix
ResultTextNoPrefix(r) == r.text

\* `result` after the try/except around execute_tool
ResultText(r) == IF r.ok THEN r.text ELSE ErrorPrefix \o r.text

\* the tool_result field of the result-bearing tool event
StreamResult(result) ==
  IF Len(result) > StreamCap THEN SubSeq(result, 1, StreamCap) \o Ellipsis ELSE result

\* a history that keeps the text cut for the stream
HistoryContentCut(result) == StreamResult(result)

\* the content of the tool-role message appended for a call
HistoryContent(result) == result

ToolInputEvent(tc) ==
  [type |-> "tool", tool_name |-> tc.name, tool_input |-> tc.arguments]

\* a second tool event that carries no result
ToolResultEventBare(tc, result) ==
  [type |-> "tool", tool_name |-> tc.name, tool_input |-> tc.arguments]

ToolResultEvent(tc, result) ==
  [type |-> "tool", tool_name |-> tc.name, tool_input |-> tc.arguments,
   tool_result |-> StreamResult(result)]

ToolMessage(tc, result) ==
  [role |-> "tool", tool_call_id |-> tc.id, content |-> HistoryContent(result)]

AssistantMessage(r) ==
  [role |-> "assistant", content |-> r.content, tool_calls |-> r.calls]

\* the tool calls executed so far in the run
Executed == Cardinality({ k \in 1..Len(ops) : ops[k].op = "exec" })

IsValueError(type) == type \in {"ValueError", "JSONDecodeError", "ValidationError"}

Exc(type, message) == [type |-> type, message |-> message]

\* a cleanup that never calls kill
CleanupNoKill(sb, killRaises) == <<>>

\* the ops of AgentService.cleanup when sandbox.kill() raises or not
CleanupOps(sb, killRaises) ==
  IF sb = "live" THEN << [op |-> "kill", at |-> Len(events), raises |-> killRaises] >> ELSE <<>>

\* a cleanup that keeps the reference to the sandbox
SandboxKept == sandbox

\* self.sandbox after AgentService.cleanup
SandboxAfterCleanup == "none"

\* the events of the controller's `finally`
FinallyEvents == << DoneEvent >>

\* the status implement_solution.event_generator writes in its `finally`
FinalStatus == IF success THEN "completed" ELSE "failed"

\* an `except` clause that closes the stream itself
ExceptEventsWithDone == << ErrorEvent(<<raised.message>>), DoneEvent >>

\* the events of the controller's `except` clauses
ExceptEvents ==
  IF mode = "analyze" /\ IsValueError(raised.type)
    THEN << ErrorEvent(<<"Configuration error: ", raised.message>>) >>
    ELSE << ErrorEvent(<<raised.message>>) >>

\* the solution event as the controller forwards it
SolutionEvent(data, session_id) ==
  [type |-> "solution", session_id |-> session_id, data |-> data]

\* a conclusion that reports DONE before the solution
ProposeEventsDoneFirst(data, session_id) ==
  << StatusEvent("proposing"), StatusEvent("done"), SolutionEvent(data, session_id) >>

\* the events of the concluding branch of a turn
ProposeEvents(data, session_id) ==
  << StatusEvent("proposing"), SolutionEvent(data, session_id), StatusEvent("done") >>

\* the events of the service's `except Exception`
ServiceExceptEvents == << ErrorEvent(str(raised)) >>


(****************************** Init ***************************************)
\* the state when the controller's event_generator is first resumed; the
\* settings are read by the analysis run only, and the budget that makes a
\* tool result too long is explored in runs of one and two turns
Init ==
  /\ mode \in {"analyze", "implement"}
  /\ max_turns \in IF mode = "analyze" THEN (0..MaxTurns) \cup {-1} ELSE {MaxTurns}
  /\ max_tokens_per_tool \in IF mode = "analyze" /\ max_turns \in 1..2
                               THEN {1, DefaultMaxTokensPerTool}
                               ELSE {DefaultMaxTokensPerTool}
  /\ pc = "ctl_start"
  /\ events = <<>>
  /\ ops = <<>>
  /\ sandbox = "none"
  /\ messages = <<>>
  /\ turn = 0
  /\ response = NoResponse
  /\ tool_calls = <<>>
  /\ idx = 0
  /\ tool_results = <<>>
  /\ raised = NoException
  /\ propagating = FALSE
  /\ comments \in IF mode = "implement" THEN CommentLists ELSE { <<>> }
  /\ cidx = 0
  /\ success = FALSE
  /\ status = IF mode = "implement" THEN "implementing" ELSE "none"
  /\ fn_arg = <<>>
  /\ fn_ret = <<>>
  /\ logs = <<>>
  /\ now = 0
  /\ expires_at = TimeToLive
  /\ running = {}
  /\ files = RepoFiles

(************************ controller: event_generator **********************)
\* OpenRouterService() / AgentService() and the first resumption of the
\* service generator
Construct ==
  /\ pc = "ctl_start"
  /\ \E outcome \in {"ok", "ValueError", "RuntimeError"} :
       \/ /\ outcome = "ok"
          /\ pc' = IF mode = "analyze" THEN "an_start" ELSE "im_start"
          /\ UNCHANGED <<raised, propagating>>
       \/ /\ outcome = "ValueError"
          /\ raised' = Exc("ValueError", "OpenRouter API key is required")
          /\ propagating' = TRUE
          /\ pc' = "ctl_except"
       \/ /\ outcome = "RuntimeError"
          /\ raised' = Exc("RuntimeError", "settings could not be loaded")
          /\ propagating' = TRUE
          /\ pc' = "ctl_except"
  /\ UNCHANGED <<confVars, sessVars, files, logs, events, ops, sandbox, loopVars, implVars, status>>

\* `except ValueError` / `except Exception` of event_generator
CtlExcept ==
  /\ pc = "ctl_except"
  /\ events' = events \o ExceptEvents
  /\ propagating' = FALSE
  /\ pc' = "ctl_finally"
  /\ UNCHANGED <<confVars, sessVars, files, logs, ops, sandbox, loopVars, raised, implVars, status>>

\* `finally` of event_generator
CtlFinally ==
  /\ pc = "ctl_finally"
  /\ IF mode = "implement"
       THEN \E stored \in BOOLEAN : status' = IF stored THEN FinalStatus ELSE status
       ELSE UNCHANGED status
  /\ events' = events \o FinallyEvents
  /\ pc' = "finished"
  /\ UNCHANGED <<confVars, sessVars, files, logs, ops, sandbox, loopVars, raised, propagating, implVars>>

(************************ AgentService.analyze_issue_stream ****************)
\* the first status event
AnalyzeStart ==
  /\ pc = "an_start"
  /\ events' = Append(events, StatusEvent("cloning"))
  /\ pc' = "an_sandbox"
  /\ UNCHANGED <<implVars, status, confVars, sessVars, files, logs, ops, sandbox, loopVars, raised, propagating>>

\* AgentService.start_sandbox
StartSandbox ==
  /\ pc = "an_sandbox"
  /\ \E outcome \in {"no_key", "create_fails", "clone_raises", "clone_nonzero", "ok"} :
       \/ /\ outcome = "no_key"
          /\ raised' = Exc("SandboxError", "E2B API key is not configured")
          /\ pc' = "an_except"
          /\ UNCHANGED <<ops, sandbox>>
       \/ /\ outcome = "create_fails"
          /\ ops' = Append(ops, [op |-> "create", at |-> Len(events), ok |-> FALSE])
          /\ raised' = Exc("SandboxError", "Failed to create sandbox")
          /\ pc' = "an_except"
          /\ UNCHANGED sandbox
       \/ /\ outcome \in {"clone_raises", "clone_nonzero"}
          /\ ops' = ops \o << [op |-> "create", at |-> Len(events), ok |-> TRUE],
                              [op |-> "run", at |-> Len(events), cmd |-> "git clone"] >>
          /\ sandbox' = "live"
          /\ raised' = Exc("CloneError", "Failed to clone")
          /\ pc' = "an_except"
       \/ /\ outcome = "ok"
          /\ ops' = ops \o << [op |-> "create", at |-> Len(events), ok |-> TRUE],
                              [op |-> "run", at |-> Len(events), cmd |-> "git clone"] >>
          /\ sandbox' = "live"
          /\ pc' = "an_cloned"
          /\ UNCHANGED raised
  /\ UNCHANGED <<implVars, status, confVars, sessVars, files, logs, events, loopVars, propagating>>

\* the status events after the clone and the initial messages
AnalyzeBegin ==
  /\ pc = "an_cloned"
  /\ events' = events \o << StatusEvent("cloning"), StatusEvent("analyzing") >>
  /\ messages' = << SystemMessage, IssueMessage >>
  /\ turn' = 0
  /\ pc' = "an_loop"
  /\ UNCHANGED <<implVars, status, confVars, sessVars, files, logs, ops, sandbox, response, tool_calls, idx, tool_results,
                 raised, propagating>>

\* the head of a turn: the LLM call, or the end of the loop
LoopTurn ==
  /\ pc = "an_loop"
  /\ IF HasTurn
       THEN \/ /\ ops' = Append(ops, LLMCall("error", <<>>))
               /\ raised' = Exc("LLMError", "LLM API call failed")
               /\ pc' = "an_except"
               /\ UNCHANGED response
            \/ /\ \E r \in LLMResponses(turn, MaxToolCalls - Executed) :
                    /\ response' = r
                    /\ ops' = Append(ops, LLMCall(IF r.finish_reason = "stop"
                                                    THEN "stop" ELSE "other",
                                                  r.content))
               /\ pc' = "an_response"
               /\ UNCHANGED raised
       ELSE /\ pc' = "an_finally"
            /\ UNCHANGED <<ops, response, raised>>
  /\ UNCHANGED <<implVars, status, confVars, sessVars, files, logs, events, sandbox, messages, turn, tool_calls, idx,
                 tool_results, propagating>>

\* what the loop does with the response of the turn
AfterLLM ==
  /\ pc = "an_response"
  /\ IF response.finish_reason = "stop" \/ is_final_turn
       THEN LET parsed == parse_solution(response.content)
            IN /\ IF parsed.raises
                    THEN /\ events' = events \o Thinking(response)
                                      \o << StatusEvent("proposing") >>
                         /\ raised' = Exc("AttributeError",
                                          "'list' object has no attribute 'get'")
                         /\ pc' = "an_except"
                         /\ UNCHANGED status
                    ELSE /\ \E session_id \in {"none", "sid"} :
                              /\ events' = events \o Thinking(response)
                                           \o ProposeEvents(parsed.solution, session_id)
                              /\ status' = IF session_id = "sid" THEN "pending"
                                                                 ELSE status
                         /\ pc' = "an_finally"
                         /\ UNCHANGED raised
               /\ UNCHANGED <<messages, turn, tool_calls, idx, tool_results>>
       ELSE /\ events' = events \o Thinking(response)
            /\ UNCHANGED status
            /\ IF response.malformed
                 THEN /\ raised' = Exc("JSONDecodeError", "Expecting value")
                      /\ pc' = "an_except"
                      /\ UNCHANGED <<messages, turn, tool_calls, idx, tool_results>>
                 ELSE IF response.calls = <<>>
                 THEN /\ turn' = turn + 1
                      /\ pc' = "an_loop"
                      /\ UNCHANGED <<messages, tool_calls, idx, tool_results, raised>>
                 ELSE /\ messages' = Append(messages, AssistantMessage(response))
                      /\ tool_calls' = response.calls
                      /\ idx' = 1
                      /\ tool_results' = <<>>
                      /\ pc' = "an_tool"
                      /\ UNCHANGED <<turn, raised>>
  /\ response' = NoResponse
  /\ UNCHANGED <<confVars, sessVars, files, logs, ops, sandbox, propagating, implVars>>

\* the input-only tool event of the call at idx
ToolInput ==
  /\ pc = "an_tool"
  /\ IF tool_calls[idx].name = NoName
       THEN /\ raised' = Exc("ValidationError", "tool_name: Input should be a valid string")
            /\ pc' = "an_except"
            /\ UNCHANGED events
       ELSE /\ events' = Append(events, ToolInputEvent(tool_calls[idx]))
            /\ pc' = "an_exec"
            /\ UNCHANGED raised
  /\ UNCHANGED <<implVars, status, confVars, sessVars, files, logs, ops, sandbox, loopVars, propagating>>

\* execute_tool, the result-bearing tool event and the tool-role message
ToolExec ==
  /\ pc = "an_exec"
  /\ \E sb \in SandboxAnswers :
       LET tc == tool_calls[idx]
           outcome == execute_tool(tc.name, tc.arguments, sb)
           result == ResultText(outcome)
           collected == Append(tool_results, ToolMessage(tc, result))
       IN /\ ops' = Append(ops, [op |-> "exec", at |-> Len(events), id |-> tc.id,
                                 ok |-> outcome.ok, result |-> result])
          /\ events' = Append(events, ToolResultEvent(tc, result))
          /\ IF idx < Len(tool_calls)
               THEN /\ idx' = idx + 1
                    /\ tool_results' = collected
                    /\ pc' = "an_tool"
                    /\ UNCHANGED <<messages, turn, tool_calls>>
               ELSE /\ messages' = messages \o collected
                    /\ turn' = turn + 1
                    /\ tool_calls' = <<>>
                    /\ idx' = 0
                    /\ tool_results' = <<>>
                    /\ pc' = "an_loop"
  /\ UNCHANGED <<implVars, status, confVars, sessVars, files, logs, sandbox, response, raised, propagating>>

\* `except Exception` of analyze_issue_stream: the error event, then `raise`
AnalyzeExcept ==
  /\ pc = "an_except"
  /\ events' = events \o ServiceExceptEvents
  /\ propagating' = TRUE
  /\ pc' = "an_finally"
  /\ UNCHANGED <<implVars, status, confVars, sessVars, files, logs, ops, sandbox, loopVars, raised>>

\* `finally` of analyze_issue_stream: AgentService.cleanup
AnalyzeFinally ==
  /\ pc = "an_finally"
  /\ \E killRaises \in BOOLEAN : ops' = ops \o CleanupOps(sandbox, killRaises)
  /\ sandbox' = SandboxAfterCleanup
  /\ pc' = IF propagating THEN "ctl_except" ELSE "ctl_finally"
  /\ UNCHANGED <<implVars, status, confVars, sessVars, files, logs, events, loopVars, raised, propagating>>

AnalyzeNext ==
  \/ AnalyzeStart \/ StartSandbox \/ AnalyzeBegin \/ LoopTurn \/ AfterLLM
  \/ ToolInput \/ ToolExec \/ AnalyzeExcept \/ AnalyzeFinally

(************************ AgentService.implement_solution_stream ************)
RunOp(cmd) == [op |-> "run", at |-> Len(events), cmd |-> cmd]

\* the login _get_github_username returns and the parts of the stored URL
GithubUsername == "user"
OriginalOwner == "owner"
RepoName == "repo"

\* the calls on the git-hosting API and what they returned
UsernameOp(login) == [op |-> "get_github_username", at |-> Len(events), result |-> login]
ForkCheckOp(exists) == [op |-> "check_repo_exists", at |-> Len(events), result |-> exists]

\* the message of the error event for a missing fork
ForkNotFound(user, owner, repo) ==
  << "Fork not found: ", user, "/", repo, ". Please fork ", owner, "/", repo,
     " first at ", "https://github.com/", owner, "/", repo, "/fork" >>

\* the event that follows the fork check
ForkCheckEvents(exists) ==
  IF exists THEN << StatusEvent("cloning") >>
            ELSE << ErrorEvent(ForkNotFound(GithubUsername, OriginalOwner, RepoName)) >>

\* a fork check whose result does not stop the run
ForkCheckNextAnyway(exists) == "im_sandbox"

\* where the run goes after the fork check: on, or to `return`
ForkCheckNext(exists) == IF exists THEN "im_sandbox" ELSE "im_finally"

\* the user lookup, the upstream URL split and the fork check; the fork
\* check answers TRUE also for an unexpected status and for a failed request
ImplPrecheck ==
  /\ pc = "im_start"
  /\ \E outcome \in {"no_username", "bad_url", "checked"} :
       \/ /\ outcome = "no_username"
          /\ ops' = Append(ops, UsernameOp("none"))
          /\ events' = Append(events, ErrorEvent(<<"Failed to get GitHub username from token">>))
          /\ pc' = "im_finally"
          /\ UNCHANGED raised
       \/ /\ outcome = "bad_url"
          /\ ops' = Append(ops, UsernameOp(GithubUsername))
          /\ raised' = Exc("IndexError", "list index out of range")
          /\ pc' = "im_except"
          /\ UNCHANGED events
       \/ /\ outcome = "checked"
          /\ \E exists \in BOOLEAN :
               /\ ops' = ops \o << UsernameOp(GithubUsername), ForkCheckOp(exists) >>
               /\ events' = events \o ForkCheckEvents(exists)
               /\ pc' = ForkCheckNext(exists)
          /\ UNCHANGED raised
  /\ UNCHANGED <<confVars, sessVars, files, logs, sandbox, loopVars, propagating, implVars, status>>

(********************* AgentService._start_sandbox_with_fork ***************)
\* the credential of the user and the URL of the fork that embeds it
GithubToken == "<github_token>"
fork_url ==
  << "https://", GithubToken, "@", "github.com/", GithubUsername, "/", RepoName, ".git" >>

\* the texts the sandbox hands back: the text of a command's exception and
\* the output of a failed clone
CommandExcText == "<command exception>"
CloneOutput == "<clone output>"

\* url.split("@")[1] if "@" in url else url
AtSigns(url) == { i \in 1..Len(url) : url[i] = "@" }
FirstOf(S) == CHOOSE i \in S : \A j \in S : i <= j
safe_url(url) ==
  IF AtSigns(url) = {} THEN url
  ELSE LET a == FirstOf(AtSigns(url))
           later == AtSigns(url) \ {a}
           b == IF later = {} THEN Len(url) + 1 ELSE FirstOf(later)
       IN SubSeq(url, a + 1, b - 1)

\* CloneError(repo_url, message): its text embeds the URL it was given
CloneError(repo_url, message) ==
  [type |-> "CloneError",
   message |-> << "Failed to clone " >> \o repo_url \o << ": " >> \o message]

\* a log record: the level, the formatted message and the `extra` text
LogRecord(level, msg, extra) == [level |-> level, msg |-> msg, extra |-> extra]

\* the records up to the clone command
CloneLogs ==
  << LogRecord("info", << "Creating E2B sandbox for fork workflow" >>, <<>>),
     LogRecord("info", << "Sandbox created" >>, <<>>),
     LogRecord("info", << "Cloning user's fork: " >> \o safe_url(fork_url), <<>>),
     LogRecord("info", << "Network test to github.com: ", "200" >>, <<>>) >>

\* a sandbox command of the clone and sync procedure and how it ended: "ok",
\* "nonzero" (a result with a non-zero exit code), "raises", and for the
\* clone "unusable" (a result the code cannot read)
SyncOp(cmd, outcome) == [op |-> "run", at |-> Len(events), cmd |-> cmd, outcome |-> outcome]

\* how remote-add, fetch and the final checkout may end
StepOutcomes == {"ok", "nonzero", "raises"}
\* how a branch probe may end: the sandbox raises on a non-zero exit
ProbeOutcomes == {"ok", "raises"}

\* a base that ignores the probes
default_branch_main(main_probe, master_probe) == "main"

\* default_branch after the probes of upstream/main and upstream/master
default_branch(main_probe, master_probe) ==
  IF main_probe # "raises" THEN "main"
  ELSE IF master_probe # "raises" THEN "master" ELSE "main"

\* the commands of the sync with upstream, in the order they are run; the
\* master probe is run only when the main probe raised
SyncOps(remote_add, fetch, main_probe, master_probe, checkout) ==
  << SyncOp("git remote add upstream", remote_add),
     SyncOp("git fetch upstream", fetch),
     SyncOp("git rev-parse --verify upstream/main", main_probe) >>
  \o (IF main_probe = "raises"
        THEN << SyncOp("git rev-parse --verify upstream/master", master_probe) >>
        ELSE <<>>)
  \o << [op |-> "run", at |-> Len(events), cmd |-> "git checkout -B main",
         outcome |-> checkout, base |-> default_branch(main_probe, master_probe)] >>

\* a warning record, written when `failed`
WarningIf(failed, text) ==
  IF failed THEN << LogRecord("warning", << text, CommandExcText >>, <<>>) >> ELSE <<>>

\* the records of a clone that went through and the sync with upstream
SyncLogs(remote_add, fetch, main_probe, master_probe, checkout) ==
  << LogRecord("info", << "Clone result: exit_code=", "0" >>, <<>>),
     LogRecord("info", << "Adding upstream remote" >>, <<>>) >>
  \o WarningIf(remote_add = "raises", "Failed to add upstream remote: ")
  \o << LogRecord("info", << "Fetching upstream" >>, <<>>) >>
  \o WarningIf(fetch # "ok", "Failed to fetch upstream: ")
  \o (IF main_probe # "raises"
        THEN << LogRecord("info", << "Found upstream/main branch" >>, <<>>) >>
        ELSE IF master_probe # "raises"
               THEN << LogRecord("info", << "Found upstream/master branch" >>, <<>>) >>
               ELSE << LogRecord("warning",
                         << "Could not find upstream/main or upstream/master, using main" >>,
                         <<>>) >>)
  \o << LogRecord("info", << "Resetting to upstream/",
                             default_branch(main_probe, master_probe) >>, <<>>) >>
  \o WarningIf(checkout = "raises", "Failed to reset to upstream: ")
  \o << LogRecord("info", << "Fork cloned and synced with upstream successfully" >>, <<>>) >>

\* the operations up to the clone command and how the clone ended
CloneOps(outcome) ==
  << [op |-> "create", at |-> Len(events), ok |-> TRUE], RunOp("curl"),
     SyncOp("git clone", outcome) >>

\* the sandbox is created, the fork cloned and synced with upstream; every
\* failure of the clone ends in a CloneError built from fork_url, and no
\* failure of a later command ends the procedure
StartSandboxWithFork ==
  /\ pc = "im_sandbox"
  /\ \E outcome \in {"no_key", "create_fails", "clone_raises", "clone_nonzero",
                      "unexpected", "ok"} :
       \/ /\ outcome = "no_key"
          /\ raised' = Exc("SandboxError", "E2B API key is not configured")
          /\ pc' = "im_except"
          /\ UNCHANGED <<ops, sandbox, logs>>
       \/ /\ outcome = "create_fails"
          /\ ops' = Append(ops, [op |-> "create", at |-> Len(events), ok |-> FALSE])
          /\ logs' = logs \o
               << LogRecord("info", << "Creating E2B sandbox for fork workflow" >>, <<>>),
                  LogRecord("error", << "Failed to create sandbox" >>, << CommandExcText >>) >>
          /\ raised' = Exc("SandboxError", "Failed to create sandbox")
          /\ pc' = "im_except"
          /\ UNCHANGED sandbox
       \/ /\ outcome = "clone_raises"
          /\ ops' = ops \o CloneOps("raises")
          /\ logs' = logs \o CloneLogs \o
               << LogRecord("error", << "E2B clone command exception: ", CommandExcText >>, <<>>) >>
          /\ sandbox' = "live"
          /\ raised' = CloneError(fork_url, << "Sandbox command failed: ", CommandExcText >>)
          /\ pc' = "im_except"
       \/ /\ outcome = "clone_nonzero"
          /\ ops' = ops \o CloneOps("nonzero")
          /\ logs' = logs \o CloneLogs \o
               << LogRecord("info", << "Clone result: exit_code=", "128" >>, <<>>),
                  LogRecord("error", << "Clone failed. Output: ", CloneOutput >>, <<>>) >>
          /\ sandbox' = "live"
          /\ raised' = CloneError(fork_url, << CloneOutput >>)
          /\ pc' = "im_except"
       \/ /\ outcome = "unexpected"
          /\ ops' = ops \o CloneOps("unusable")
          /\ logs' = logs \o CloneLogs \o
               << LogRecord("error", << "Fork clone failed with unexpected exception: ",
                                        CommandExcText >>, <<>>) >>
          /\ sandbox' = "live"
          /\ raised' = CloneError(fork_url, << CommandExcText >>)
          /\ pc' = "im_except"
       \/ /\ outcome = "ok"
          /\ \E remote_add, fetch, checkout \in StepOutcomes :
               \E main_probe, master_probe \in ProbeOutcomes :
                 /\ main_probe = "ok" => master_probe = "ok"
                 /\ ops' = ops \o CloneOps("ok")
                            \o SyncOps(remote_add, fetch, main_probe, master_probe, checkout)
                 /\ logs' = logs \o CloneLogs
                            \o SyncLogs(remote_add, fetch, main_probe, master_probe, checkout)
          /\ sandbox' = "live"
          /\ pc' = "im_branch"
          /\ UNCHANGED raised
  /\ UNCHANGED <<confVars, sessVars, files, events, loopVars, propagating, implVars, status>>

\* a step that ends the run with an error event and `return`
ImplStop(evs, message) ==
  /\ events' = evs \o << ErrorEvent(message) >>
  /\ pc' = "im_finally"

\* a command of the executor, the number of events yielded before it and how
\* it ended: "ok", "nonzero" (a result with a non-zero exit code) or "raises"
StepOp(cmd, at, outcome) == [op |-> "run", at |-> at, cmd |-> cmd, outcome |-> outcome]

\* the status events after the clone and `git checkout -b`
ImplBranch ==
  /\ pc = "im_branch"
  /\ LET evs == events \o << StatusEvent("cloning"), StatusEvent("implementing") >>
     IN \E outcome \in {"ok", "nonzero", "raises"} :
          /\ ops' = Append(ops, StepOp("git checkout -b", Len(evs), outcome))
          /\ IF outcome = "ok"
               THEN events' = evs /\ pc' = "im_write"
               ELSE ImplStop(evs, <<"Failed to create branch: ", outcome>>)
  /\ UNCHANGED <<confVars, sessVars, files, logs, sandbox, loopVars, raised, propagating, implVars, status>>

\* ANALYSIS.md is generated and written
ImplAnalysisDoc ==
  /\ pc = "im_write"
  /\ events' = Append(events, StatusEvent("implementing"))
  /\ ops' = Append(ops, [op |-> "write", at |-> Len(events) + 1, path |-> "ANALYSIS.md"])
  /\ \/ /\ pc' = "im_comments"
        /\ cidx' = 1
        /\ UNCHANGED raised
     \/ /\ raised' = Exc("SandboxException", "write failed")
        /\ pc' = "im_except"
        /\ UNCHANGED cidx
  /\ UNCHANGED <<confVars, sessVars, files, logs, sandbox, loopVars, propagating, success, status>>

\* one iteration of the loop over comments_to_add, or its end
ImplComment ==
  /\ pc = "im_comments"
  /\ IF cidx > Len(comments)
       THEN /\ pc' = "im_stage"
            /\ UNCHANGED <<events, ops, cidx, files>>
       ELSE LET c == comments[cidx]
                idx0 == insert_idx(c.line_number)
            IN /\ cidx' = cidx + 1
               /\ pc' = "im_comments"
               /\ IF SkippedEntry(c)
                    THEN UNCHANGED <<events, ops, files>>
                    ELSE /\ events' = Append(events, StatusEvent("implementing"))
                         /\ \E outcome \in {"read_raises", "write_raises", "ok"} :
                              LET readOp == [op |-> "read", at |-> Len(events) + 1,
                                             path |-> c.file,
                                             raises |-> outcome = "read_raises"]
                                  writeOp == [op |-> "write", at |-> Len(events) + 1,
                                              path |-> c.file,
                                              raises |-> outcome = "write_raises"]
                              IN /\ c.file \notin DOMAIN files => outcome = "read_raises"
                                 /\ IF outcome = "read_raises"
                                      THEN ops' = Append(ops, readOp) /\ UNCHANGED files
                                    ELSE IF idx0 < Len(files[c.file])
                                      THEN /\ ops' = ops \o << readOp, writeOp >>
                                           /\ files' =
                                                IF outcome = "write_raises" THEN files
                                                ELSE [files EXCEPT ![c.file] =
                                                        InsertComment(@, idx0, c.comment)]
                                      ELSE /\ outcome = "ok"
                                           /\ ops' = Append(ops, readOp)
                                           /\ UNCHANGED files
  /\ UNCHANGED <<confVars, sessVars, logs, sandbox, loopVars, raised, propagating, success, status>>

\* git config, the staging status event and `git add .`, whose result is
\* not looked at: only an exception stops the run
ImplStage ==
  /\ pc = "im_stage"
  /\ \E outcome \in {"ok", "nonzero", "raises"} :
       /\ ops' = ops \o << RunOp("git config"),
                           StepOp("git add", Len(events) + 1, outcome) >>
       /\ IF outcome # "raises"
            THEN /\ events' = Append(events, StatusEvent("implementing"))
                 /\ pc' = "im_check"
            ELSE ImplStop(Append(events, StatusEvent("implementing")),
                          <<"Failed to stage changes: ", outcome>>)
  /\ UNCHANGED <<confVars, sessVars, files, logs, sandbox, loopVars, raised, propagating, implVars, status>>

\* what `git diff --cached --stat` prints: nothing, white space, a summary
StatOutputs == { <<>>, <<" ", "\n">>, ShortText }

\* a staged check that takes white space for a change
NothingStagedExact(stdout) == stdout = <<>>

\* `not status_result.stdout.strip()`
NothingStaged(stdout) == IsBlank(stdout)

\* `git diff --cached --stat`; when the command raises the check is skipped
ImplCheckStaged ==
  /\ pc = "im_check"
  /\ \/ \E stdout \in StatOutputs :
          /\ ops' = Append(ops, [op |-> "run", at |-> Len(events),
                                 cmd |-> "git diff --cached --stat",
                                 raises |-> FALSE, stdout |-> stdout])
          /\ IF NothingStaged(stdout)
               THEN ImplStop(events, << "No changes to commit",
                                        ". The patches may not have modified any files." >>)
               ELSE pc' = "im_commit" /\ UNCHANGED events
     \/ /\ ops' = Append(ops, [op |-> "run", at |-> Len(events),
                                cmd |-> "git diff --cached --stat",
                                raises |-> TRUE, stdout |-> <<>>])
        /\ pc' = "im_commit"
        /\ UNCHANGED events
  /\ UNCHANGED <<confVars, sessVars, files, logs, sandbox, loopVars, raised, propagating, implVars, status>>

\* the commit status event and `git commit`
ImplCommit ==
  /\ pc = "im_commit"
  /\ \E outcome \in {"ok", "nonzero", "raises"} :
       /\ ops' = Append(ops, StepOp("git commit", Len(events) + 1, outcome))
       /\ IF outcome = "ok"
            THEN /\ events' = Append(events, StatusEvent("implementing"))
                 /\ pc' = "im_diff"
            ELSE ImplStop(Append(events, StatusEvent("implementing")),
                          <<"Failed to commit: ", outcome>>)
  /\ UNCHANGED <<confVars, sessVars, files, logs, sandbox, loopVars, raised, propagating, implVars, status>>

\* `git diff HEAD~1`, the diff event and the pushing status event
ImplDiff ==
  /\ pc = "im_diff"
  /\ ops' = Append(ops, RunOp("git diff HEAD~1"))
  /\ \E diff_content \in {"", "diff"} :
       events' = events \o << [type |-> "diff", data |-> diff_content],
                              StatusEvent("pushing") >>
  /\ pc' = "im_push"
  /\ UNCHANGED <<confVars, sessVars, files, logs, sandbox, loopVars, raised, propagating, implVars, status>>

\* `git push -u origin`, the result event and the final status event
ImplPush ==
  /\ pc = "im_push"
  /\ \E outcome \in {"ok", "nonzero", "raises"} :
       /\ ops' = Append(ops, StepOp("git push", Len(events), outcome))
       /\ IF outcome = "ok"
            THEN /\ events' = events \o << [type |-> "result", branch |-> "branch"],
                                           StatusEvent("done") >>
                 /\ success' = TRUE
                 /\ pc' = "im_finally"
            ELSE /\ ImplStop(events, <<"Failed to push", outcome>>)
                 /\ UNCHANGED success
  /\ UNCHANGED <<confVars, sessVars, files, logs, sandbox, loopVars, raised, propagating, cidx, status>>

\* `except Exception` of implement_solution_stream: the log record and the
\* error event, both with str(e); no `raise`
ImplExcept ==
  /\ pc = "im_except"
  /\ logs' = Append(logs, LogRecord("error", << "Implementation failed" >>, str(raised)))
  /\ events' = events \o ServiceExceptEvents
  /\ pc' = "im_finally"
  /\ UNCHANGED <<confVars, sessVars, files, ops, sandbox, loopVars, raised, propagating, implVars, status>>

\* `finally` of implement_solution_stream: AgentService.cleanup
ImplFinally ==
  /\ pc = "im_finally"
  /\ \E killRaises \in BOOLEAN : ops' = ops \o CleanupOps(sandbox, killRaises)
  /\ sandbox' = SandboxAfterCleanup
  /\ pc' = "ctl_finally"
  /\ UNCHANGED <<confVars, sessVars, files, logs, events, loopVars, raised, propagating, implVars, status>>

ImplementNext ==
  \/ ImplPrecheck \/ StartSandboxWithFork \/ ImplBranch \/ ImplAnalysisDoc
  \/ ImplComment \/ ImplStage \/ ImplCheckStaged \/ ImplCommit \/ ImplDiff
  \/ ImplPush \/ ImplExcept \/ ImplFinally

(************************ a function applied on its own ********************)
\* the text and the budget a function is applied to
UnitInit ==
  /\ mode = "unit"
  /\ pc = "fn_start"
  /\ fn_arg \in SegmentTexts(MaxSegments) \cup { DigitText(n) : n \in 0..MaxLen }
  /\ max_tokens_per_tool \in (-1)..MaxBudget
  /\ fn_ret = <<>>
  /\ logs = <<>>
  /\ now = 0
  /\ expires_at = TimeToLive
  /\ running = {}
  /\ files = RepoFiles
  /\ max_turns = MaxTurns
  /\ events = <<>>
  /\ ops = <<>>
  /\ sandbox = "none"
  /\ messages = <<>>
  /\ turn = 0
  /\ response = NoResponse
  /\ tool_calls = <<>>
  /\ idx = 0
  /\ tool_results = <<>>
  /\ raised = NoException
  /\ propagating = FALSE
  /\ comments = <<>>
  /\ cidx = 0
  /\ success = FALSE
  /\ status = "none"

unitVars == <<mode, max_turns, max_tokens_per_tool, comments, fn_arg, logs, sessVars, files,
              events, ops,
              sandbox,
              loopVars, raised, propagating, implVars, status>>

\* AgentService._truncate_output applied to the text
Truncate ==
  /\ pc = "fn_start"
  /\ fn_ret' = truncate_output(fn_arg)
  /\ pc' = "fn_truncated"
  /\ UNCHANGED unitVars

\* AgentService._parse_solution applied to the text
Parse ==
  /\ pc = "fn_start"
  /\ fn_ret' = parse_solution(fn_arg)
  /\ pc' = "fn_parsed"
  /\ UNCHANGED unitVars

UnitNext == Truncate \/ Parse

UnitSpec == UnitInit /\ [][UnitNext]_vars

(************************ the comment loop on its own ***********************)
\* the text of the entry at position i
CommentTexts == << "# c1", "# c2", "# c3", "# c4" >>

\* the entries that may stand at position i: the ones that are skipped for
\* an empty file or comment, and the ones aimed at a.py with a line number
\* from -1 up to one beyond what is explored as a file length
EntriesAt(i) ==
  { [file |-> "", line_number |-> 1, comment |-> CommentTexts[i]],
    [file |-> "a.py", line_number |-> 1, comment |-> ""] }
  \cup { [file |-> "a.py", line_number |-> n, comment |-> CommentTexts[i]] :
           n \in (-1)..MaxLine }

RECURSIVE EntryLists(_)
EntryLists(n) ==
  IF n = 0 THEN { <<>> }
  ELSE LET shorter == EntryLists(n - 1)
       IN shorter \cup { Append(q, e) : q \in { x \in shorter : Len(x) = n - 1 },
                                        e \in EntriesAt(n) }

\* the state in which implement_solution_stream enters the loop over
\* comments_to_add
CommentInit ==
  /\ mode = "comments"
  /\ pc = "im_comments"
  /\ comments \in EntryLists(MaxComments)
  /\ cidx = 1
  /\ files = RepoFiles
  /\ sandbox = "live"
  /\ now = 0
  /\ expires_at = TimeToLive
  /\ running = {}
  /\ status = "implementing"
  /\ ops = <<>>
  /\ events = <<>>
  /\ logs = <<>>
  /\ fn_arg = <<>>
  /\ fn_ret = <<>>
  /\ max_turns = MaxTurns
  /\ max_tokens_per_tool = DefaultMaxTokensPerTool
  /\ messages = <<>>
  /\ turn = 0
  /\ response = NoResponse
  /\ tool_calls = <<>>
  /\ idx = 0
  /\ tool_results = <<>>
  /\ raised = NoException
  /\ propagating = FALSE
  /\ success = FALSE

CommentSpec == CommentInit /\ [][ImplComment]_vars

(************************* the requests on a session ***********************)
\* the users that make requests: the session's owner and somebody else
Users == {"owner", "other"}

\* AgentSessionRecord.is_expired
is_expired == now > expires_at

\* the requests made so far
Requests == { k \in 1..Len(ops) : ops[k].op \in {"implement", "get_session", "list_sessions"} }

\* what a request handler leaves behind: the time of the request, the HTTP
\* status of the answer, whether the session was expired and which status it
\* had when the handler read it, whether an implementation stream was opened
\* and which streams were open already
RequestOp(name, user, code, started) ==
  [op |-> name, id |-> Len(ops) + 1, user |-> user, at |-> now, code |-> code,
   expired |-> is_expired, status |-> status, started |-> started, open |-> running]

\* the state when analyze_issue has stored the session (AgentSessionDAO.create)
SessionInit ==
  /\ mode = "session"
  /\ pc = "serving"
  /\ now = 0
  /\ expires_at = now + TimeToLive
  /\ status = "pending"
  /\ running = {}
  /\ files = RepoFiles
  /\ ops = <<>>
  /\ events = <<>>
  /\ logs = <<>>
  /\ fn_arg = <<>>
  /\ fn_ret = <<>>
  /\ max_turns = MaxTurns
  /\ max_tokens_per_tool = DefaultMaxTokensPerTool
  /\ sandbox = "none"
  /\ messages = <<>>
  /\ turn = 0
  /\ response = NoResponse
  /\ tool_calls = <<>>
  /\ idx = 0
  /\ tool_results = <<>>
  /\ raised = NoException
  /\ propagating = FALSE
  /\ comments = <<>>
  /\ cidx = 0
  /\ success = FALSE

sessionFrame == <<mode, pc, max_turns, max_tokens_per_tool, comments, fn_arg, fn_ret, logs, files,
                  events,
                  sandbox, loopVars, raised, propagating, implVars>>

\* time passes
Tick ==
  /\ now < MaxTime
  /\ now' = now + 1
  /\ UNCHANGED <<sessionFrame, ops, status, expires_at, running>>

\* POST /agent/implement up to the moment the stream is handed back: 403 for
\* another user, 410 and status "expired" for an expired session, else the
\* TTL is reset, the status becomes "implementing" and the stream is opened;
\* a write the database refuses is ignored by the handler
ImplementRequest ==
  /\ Cardinality(Requests) < MaxRequests
  /\ \E user \in Users, touched \in BOOLEAN, stored \in BOOLEAN :
       IF user # "owner"
         THEN /\ ops' = Append(ops, RequestOp("implement", user, 403, FALSE))
              /\ touched /\ stored
              /\ UNCHANGED <<status, expires_at, running>>
       ELSE IF is_expired
         THEN /\ ops' = Append(ops, RequestOp("implement", user, 410, FALSE))
              /\ touched
              /\ status' = IF stored THEN "expired" ELSE status
              /\ UNCHANGED <<expires_at, running>>
         ELSE /\ ops' = Append(ops, RequestOp("implement", user, 200, TRUE))
              /\ expires_at' = IF touched THEN now + TimeToLive ELSE expires_at
              /\ status' = IF stored THEN "implementing" ELSE status
              /\ running' = running \cup { Len(ops) + 1 }
  /\ UNCHANGED <<sessionFrame, now>>

\* the end of an implementation stream: `finally` of event_generator writes
\* "completed" after a result event and "failed" otherwise
StreamEnd ==
  /\ \E r \in running, result \in BOOLEAN, stored \in BOOLEAN :
       /\ ops' = Append(ops, [op |-> "stream_end", id |-> r, at |-> now, result |-> result,
                              stored |-> stored])
       /\ status' = IF ~stored THEN status ELSE IF result THEN "completed" ELSE "failed"
       /\ running' = running \ {r}
  /\ UNCHANGED <<sessionFrame, now, expires_at>>

\* GET /agent/sessions/{id}: no expiry test, the TTL is reset
GetSession ==
  /\ Cardinality(Requests) < MaxRequests
  /\ \E user \in Users, touched \in BOOLEAN :
       IF user # "owner"
         THEN /\ ops' = Append(ops, RequestOp("get_session", user, 403, FALSE))
              /\ touched
              /\ UNCHANGED expires_at
         ELSE /\ ops' = Append(ops, RequestOp("get_session", user, 200, FALSE))
              /\ expires_at' = IF touched THEN now + TimeToLive ELSE expires_at
  /\ UNCHANGED <<sessionFrame, now, status, running>>

\* GET /agent/sessions: the sessions are read, nothing is written
ListSessions ==
  /\ Cardinality(Requests) < MaxRequests
  /\ \E user \in Users : ops' = Append(ops, RequestOp("list_sessions", user, 200, FALSE))
  /\ UNCHANGED <<sessionFrame, now, status, expires_at, running>>

SessionNext == Tick \/ ImplementRequest \/ StreamEnd \/ GetSession \/ ListSessions

SessionSpec == SessionInit /\ [][SessionNext]_vars

Next == Construct \/ CtlExcept \/ CtlFinally \/ AnalyzeNext \/ ImplementNext

Spec == Init /\ [][Next]_vars


(***************************************************************************)
(*                              the claims                                  *)
(***************************************************************************)
EventIdx(type) == { k \in 1..Len(events) : events[k].type = type }
Count(type) == Cardinality(EventIdx(type))
OpIdx(name) == { k \in 1..Len(ops) : ops[k].op = name }
Created == { k \in OpIdx("create") : ops[k].ok }
Kills == OpIdx("kill")
Finished == pc = "finished"
\* the number of ops named `name` among the first k ops
Ordinal(name, k) == Cardinality({ j \in OpIdx(name) : j <= k })
\* the Analysis Loop was entered
LoopEntered == mode = "analyze" /\ Len(messages) >= 2

\* C1: the stream of every run, whatever its outcome, holds exactly one
\* `done` event once it has ended, no more than one before, and nothing
\* ever follows a `done` event.
C1_DoneIsLast ==
  /\ Count("done") <= 1
  /\ \A k \in EventIdx("done") : k = Len(events)
  /\ Count("done") = 1 <=> Finished

\* C1 witness: a run in which the service generator raised has ended.
C1_Witness ==
  /\ Finished
  /\ mode = "analyze"
  /\ raised.type = "LLMError"
  /\ events[Len(events)].type = "done"

\* C2: a sandbox that was created is killed exactly once, never twice and
\* never without having been created; the kill precedes the `done` event,
\* and when the stream has ended the service holds no sandbox, also when
\* kill raised.
C2_KillOnce ==
  /\ Cardinality(Created) <= 1
  /\ Cardinality(Kills) <= Cardinality(Created)
  /\ sandbox = "live" <=> (Created # {} /\ Kills = {})
  /\ \A k \in Kills : \A d \in EventIdx("done") : ops[k].at < d
  /\ Count("done") > 0 =>
       /\ sandbox = "none"
       /\ Cardinality(Kills) = Cardinality(Created)

\* C2 witness: the run has ended, its sandbox's kill raised, and the service
\* holds no sandbox.
C2_Witness ==
  /\ Finished
  /\ \E k \in Kills : ops[k].raises
  /\ sandbox = "none"

\* the exception of the run was raised before any sandbox existed
RaisedBeforeSandbox ==
  raised.type \in {"ValueError", "RuntimeError", "SandboxError", "IndexError"}

\* C3 as stated: every run that raised an exception, at whatever step,
\* invoked kill exactly once.
C3_Original ==
  (Finished /\ raised.type # "none") => Cardinality(Kills) = 1

\* C3 amended: a run that raised an exception invoked kill exactly once when
\* the exception came after the sandbox was created (clone, LLM call,
\* tool-call parsing, file write), and not at all when it came before
\* (service construction, missing sandbox credential, sandbox creation,
\* upstream URL split).
C3_KillOnException ==
  (Finished /\ raised.type # "none") =>
     Cardinality(Kills) = IF RaisedBeforeSandbox THEN 0 ELSE 1

\* C3 witness: a run ended by an LLM failure, its sandbox killed once.
C3_Witness ==
  /\ Finished
  /\ raised.type \in {"LLMError", "JSONDecodeError", "SandboxException"}
  /\ Cardinality(Kills) = 1

\* C4: with max_turns = N a run makes at most N LLM calls, the j-th in turn
\* j; every call before the N-th is given the full tool set, the N-th is
\* given no tools and the forced-conclusion instruction as last message.
C4_TurnBudget ==
  /\ Cardinality(OpIdx("llm")) <= IF max_turns > 0 THEN max_turns ELSE 0
  /\ \A k \in OpIdx("llm") :
       LET n == Ordinal("llm", k)
           o == ops[k]
       IN /\ o.turn = n - 1
          /\ n < max_turns => o.tools = AGENT_TOOLS
          /\ n < max_turns => o.messages[Len(o.messages)] # ForcedConclusion
          /\ n = max_turns =>
               /\ o.tools = {}
               /\ o.messages[Len(o.messages)] = ForcedConclusion

\* C4 witness: the N-th call of a run with N = MaxTurns was made without
\* tools, after calls that were given the tools.
C4_Witness ==
  /\ max_turns = MaxTurns
  /\ Cardinality(OpIdx("llm")) = max_turns
  /\ \E k \in OpIdx("llm") : ops[k].tools = {}
  /\ \E k \in OpIdx("llm") : ops[k].tools = AGENT_TOOLS

\* no LLM call of the run failed or returned finish_reason stop, and no
\* response was unusable
NeverStopped ==
  /\ raised.type = "none"
  /\ \A k \in OpIdx("llm") : ops[k].answer = "other"

C6_SomeOutcome ==
  Finished => Count("solution") + Count("result") + Count("error") >= 1

\* the ops made after the k-th event was emitted
OpsAfterEvent(k) == { j \in 1..Len(ops) : ops[j].at >= k }

\* C7 as stated: a run aborted by a sandbox-creation, clone or LLM failure
\* streams exactly one `error` event, does nothing but the teardown after
\* it, and kills its sandbox before the stream ends.
C7_SingleError ==
  (Finished /\ raised.type \in {"SandboxError", "CloneError", "LLMError"}) =>
     /\ Count("error") = 1
     /\ \A e \in EventIdx("error") : \A j \in OpsAfterEvent(e) : ops[j].op = "kill"
     /\ Cardinality(Kills) = Cardinality(Created)
     /\ sandbox = "none"

\* the history as the code holds it during a turn: the messages, and the
\* tool-role messages of the turn that are appended when it completes
History == messages \o tool_results

FailedExecs == { k \in OpIdx("exec") : ~ops[k].ok }

\* the tool calls the model returned in turn t, from the assistant message
CallsOfTurn(t) ==
  LET at == { j \in 1..Len(messages) :
                /\ messages[j].role = "assistant"
                /\ messages[j].tool_calls[1].id[1] = t }
  IN messages[CHOOSE j \in at : TRUE].tool_calls

\* C8: a failed tool execution does not abort the loop and adds no `error`
\* event: its text, prefixed "Error: ", is the result of the call in the
\* result-bearing tool event and in the tool-role message; what follows it
\* is the execution of the next call of the turn, or the LLM call of the
\* next turn.
C8_ToolFailureIsLocal ==
  /\ (FailedExecs # {} /\ Count("error") > 0) =>
        raised.type \in {"LLMError", "JSONDecodeError", "ValidationError",
                         "AttributeError"}
  /\ raised.type # "ToolExecutionError"
  /\ \A k \in FailedExecs :
       LET o == ops[k]
           t == o.id[1]
           j == o.id[2]
           calls == CallsOfTurn(t)
       IN /\ StartsWith(o.result, ErrorPrefix)
          /\ events[o.at + 1].type = "tool"
          /\ "tool_result" \in DOMAIN events[o.at + 1]
          /\ StartsWith(events[o.at + 1].tool_result, ErrorPrefix)
          /\ \E m \in 1..Len(History) :
               /\ History[m].role = "tool"
               /\ History[m].tool_call_id = o.id
               /\ History[m].content = o.result
          /\ IF j < Len(calls)
               THEN IF calls[j + 1].name # NoName
                      THEN /\ pc \in {"an_tool", "an_exec"} \/ k < Len(ops)
                           /\ k < Len(ops) =>
                                ops[k + 1].op = "exec" /\ ops[k + 1].id = calls[j + 1].id
                      ELSE pc = "an_tool" \/ raised.type = "ValidationError"
               ELSE /\ pc = "an_loop" \/ k < Len(ops)
                    /\ pc = "an_loop" /\ k = Len(ops) => HasTurn
                    /\ k < Len(ops) => ops[k + 1].op = "llm" /\ ops[k + 1].turn = t + 1

\* C8 witness: a run ended with a solution after a turn in which a failed
\* call was followed by a successful one, and after a sandbox failure.
C8_Witness ==
  /\ Finished
  /\ Count("solution") = 1
  /\ \E k \in FailedExecs : k < Len(ops) /\ ops[k + 1].op = "exec" /\ ops[k + 1].ok
  /\ Count("error") = 0

\* C9: each executed tool call has exactly two tool events, the input-only
\* one directly followed by the result-bearing one, the execution between
\* them; the pairs follow the order of the calls in the response, the
\* result event of a call precedes the input event of the next, and every
\* call of a completed turn has its pair.
C9_ToolEventPairs ==
  LET E == OpIdx("exec")
  IN /\ \A k \in E :
          LET a == ops[k].at
              tc == CallsOfTurn(ops[k].id[1])[ops[k].id[2]]
          IN /\ a >= 1
             /\ events[a] = [type |-> "tool", tool_name |-> tc.name,
                             tool_input |-> tc.arguments]
             /\ events[a + 1].type = "tool"
             /\ "tool_result" \in DOMAIN events[a + 1]
             /\ events[a + 1].tool_name = tc.name
             /\ events[a + 1].tool_input = tc.arguments
             /\ ops[k].id[2] = 1 + Cardinality({ i \in E : i < k /\ ops[i].id[1] = ops[k].id[1] })
     /\ EventIdx("tool") = UNION { { ops[k].at, ops[k].at + 1 } : k \in E }
                           \cup (IF pc = "an_exec" THEN { Len(events) } ELSE {})
     /\ \A k1, k2 \in E : k1 < k2 => ops[k1].at + 1 < ops[k2].at
     /\ \A m \in 1..Len(messages) :
          (messages[m].role = "assistant" /\ m < Len(messages)) =>
             \A c \in 1..Len(messages[m].tool_calls) :
                Cardinality({ k \in E : ops[k].id = messages[m].tool_calls[c].id }) = 1

\* C9 witness: a turn with two calls was executed, the second after the first.
C9_Witness ==
  /\ Finished
  /\ \E k \in OpIdx("exec") : ops[k].id[2] = 2
  /\ Cardinality(EventIdx("tool")) = 4

\* ms[k..] is a sequence of groups: an assistant message with n >= 1 calls
\* followed by n tool-role messages with the ids of the calls, in order;
\* `open`: the last group may still lack its tool-role messages
RECURSIVE Groups(_, _, _)
Groups(ms, k, open) ==
  IF k > Len(ms) THEN TRUE
  ELSE /\ ms[k].role = "assistant"
       /\ Len(ms[k].tool_calls) >= 1
       /\ IF open /\ k = Len(ms) THEN TRUE
          ELSE LET n == Len(ms[k].tool_calls)
               IN /\ k + n <= Len(ms)
                  /\ \A c \in 1..n :
                       /\ ms[k + c].role = "tool"
                       /\ ms[k + c].tool_call_id = ms[k].tool_calls[c].id
                  /\ Groups(ms, k + n + 1, open)

\* the system and user messages followed by groups
WellFormed(ms, open) ==
  /\ Len(ms) >= 2
  /\ ms[1] = SystemMessage
  /\ ms[2] = IssueMessage
  /\ Groups(ms, 3, open)

\* the messages of an LLM call without the forced-conclusion instruction
Base(o) ==
  IF o.tools = {} THEN SubSeq(o.messages, 1, Len(o.messages) - 1) ELSE o.messages

IsPrefix(a, b) == Len(a) <= Len(b) /\ SubSeq(b, 1, Len(a)) = a

\* C10: the history is the system and user messages followed by one group
\* per tool-executing turn, in turn order: the assistant message, then one
\* tool-role message per call, in the order of the calls, with the call's
\* id and the full result of its execution; only the turn in progress may
\* lack its tool-role messages.  Every LLM call is given such a history of
\* complete groups, and a later call's history extends an earlier one's.
C10_History ==
  /\ messages # <<>> =>
       WellFormed(messages, pc \in {"an_tool", "an_exec"} \/ raised.type = "ValidationError")
  /\ \A m \in 1..Len(History) :
       History[m].role = "tool" =>
          \E k \in OpIdx("exec") :
             /\ ops[k].id = History[m].tool_call_id
             /\ ops[k].result = History[m].content
  /\ \A k \in OpIdx("llm") :
       /\ WellFormed(Base(ops[k]), FALSE)
       /\ IsPrefix(Base(ops[k]), messages)
       /\ \A i \in OpIdx("llm") : i < k =>
            /\ IsPrefix(Base(ops[i]), Base(ops[k]))
            /\ Len(Base(ops[k])) - Len(Base(ops[i]))
                 = Cardinality({ e \in OpIdx("exec") : i < e /\ e < k })
                   + Cardinality({ t \in ops[i].turn..(ops[k].turn - 1) :
                                     \E e \in OpIdx("exec") : ops[e].id[1] = t })

\* C10 witness: after two tool-executing turns the last LLM call was given
\* both groups, one of them with a result longer than the stream's cut.
C10_Witness ==
  /\ Finished
  /\ \E k \in OpIdx("llm") :
       /\ Len(ops[k].messages) >= 6
       /\ \E m \in 1..Len(ops[k].messages) :
            /\ ops[k].messages[m].role = "tool"
            /\ Len(ops[k].messages[m].content) > StreamCap


\* the position of a step in the state machine of the run
Rank(step) ==
  CASE step = "cloning" -> 1
    [] step \in {"analyzing", "implementing"} -> 2
    [] step \in {"proposing", "pushing"} -> 3
    [] step = "done" -> 4

\* the steps of the state machine of the run
StepsOf(m) ==
  IF m = "analyze" THEN {"cloning", "analyzing", "proposing", "done"}
                   ELSE {"cloning", "implementing", "pushing", "done"}

\* C11: the steps of successive status events never move backwards in the
\* state machine of the run; status(done) comes only after the solution
\* (analysis) or result (implementation) event, and never in a run with an
\* error event.
C11_StatusMonotonic ==
  /\ \A k \in EventIdx("status") : events[k].step \in StepsOf(mode)
  /\ \A i, j \in EventIdx("status") :
       i < j => Rank(events[i].step) <= Rank(events[j].step)
  /\ \A k \in EventIdx("status") :
       events[k].step = "done" =>
          /\ \E j \in 1..(k - 1) :
               events[j].type = IF mode = "analyze" THEN "solution" ELSE "result"
          /\ Count("error") = 0

\* C11 witness: an implementation run went through every step, with a
\* comment inserted between branch creation and staging.
C11_Witness ==
  /\ Finished
  /\ mode = "implement"
  /\ { events[k].step : k \in EventIdx("status") } = StepsOf("implement")
  /\ Count("status") >= 8


\* a precondition of the implementation run failed: no login, or no fork
PreconditionFailed ==
  \E k \in 1..Len(ops) :
     \/ ops[k].op = "get_github_username" /\ ops[k].result = "none"
     \/ ops[k].op = "check_repo_exists" /\ ops[k].result = FALSE

\* C12: when the username lookup returns nothing or the fork check returns
\* false, the stream is one error event (for a missing fork: naming the
\* fork owner/repo and the URL where it is created) and then done; no
\* status, diff or result event is emitted, no sandbox is created and no
\* command runs.
C12_PreconditionStops ==
  PreconditionFailed =>
     /\ Count("error") = 1
     /\ Count("status") = 0 /\ Count("diff") = 0 /\ Count("result") = 0
     /\ events[1].type = "error"
     /\ (\E k \in OpIdx("check_repo_exists") : ops[k].result = FALSE) =>
          /\ \E i \in 1..(Len(events[1].message) - 2) :
               /\ events[1].message[i] = GithubUsername
               /\ events[1].message[i + 1] = "/"
               /\ events[1].message[i + 2] = RepoName
          /\ \E i \in 1..(Len(events[1].message) - 4) :
               SubSeq(events[1].message, i, i + 4)
                 = << "https://github.com/", OriginalOwner, "/", RepoName, "/fork" >>
     /\ OpIdx("create") = {} /\ OpIdx("run") = {} /\ OpIdx("kill") = {}
     /\ OpIdx("write") = {} /\ OpIdx("read") = {}
     /\ sandbox = "none"
     /\ pc \in {"im_finally", "ctl_finally", "finished"}
     /\ Finished => events = << events[1], DoneEvent >>

\* C12 witness: a run ended after the fork check answered false.
C12_Witness ==
  /\ Finished
  /\ \E k \in OpIdx("check_repo_exists") : ops[k].result = FALSE


\* the run ops of a command
RunsOf(cmd) == { k \in OpIdx("run") : ops[k].cmd = cmd }

\* the staged check ran and printed nothing but white space
StagedDiffEmpty ==
  \E k \in RunsOf("git diff --cached --stat") : ~ops[k].raises /\ IsBlank(ops[k].stdout)

\* C13: when the staged diff is empty the run emits an error event whose
\* message starts with "No changes to commit" and stops: no commit or push
\* command runs, no diff or result event is emitted, and the sandbox is
\* killed before done.
C13_NothingStaged ==
  StagedDiffEmpty =>
     /\ Count("error") = 1
     /\ \A e \in EventIdx("error") :
          /\ events[e].message[1] = "No changes to commit"
          /\ \A j \in OpsAfterEvent(e) : ops[j].op = "kill"
     /\ RunsOf("git commit") = {} /\ RunsOf("git push") = {}
     /\ RunsOf("git diff HEAD~1") = {}
     /\ Count("diff") = 0 /\ Count("result") = 0
     /\ pc \in {"im_finally", "ctl_finally", "finished"}
     /\ Finished =>
          /\ Cardinality(Kills) = 1
          /\ sandbox = "none"
          /\ \A k \in Kills : ops[k].at < Len(events)
          /\ events[Len(events) - 1].type = "error"
          /\ ~success

\* C13 witness: a run ended after the staged check printed white space only.
C13_Witness ==
  /\ Finished
  /\ \E k \in RunsOf("git diff --cached --stat") :
       ~ops[k].raises /\ ops[k].stdout # <<>> /\ IsBlank(ops[k].stdout)


\* a JSON object was parsed from the text
ObjectParsed(t) == ParsedJson(t).kind = "object" /\ Truthy(ParsedJson(t))

\* C14 as stated: the Solution parsed from a JSON object has no
\* comments_to_add entry whose file is empty or holds a placeholder
\* pattern, and keeps the entries with other files.
C14_CommentsSanitized ==
  (pc = "fn_parsed" /\ ObjectParsed(fn_arg) /\ ~fn_ret.raises
     /\ "comments_to_add" \in DOMAIN fn_ret.solution) =>
     LET kept == fn_ret.solution["comments_to_add"]
         given == ParsedJson(fn_arg).value["comments_to_add"]
     IN /\ \A k \in 1..Len(kept) :
             kept[k].file # <<>> /\ ~IsInvalidPath(kept[k].file)
        /\ \A k \in 1..Len(given) :
             (given[k].file # <<>> /\ ~IsInvalidPath(given[k].file)) =>
                \E j \in 1..Len(kept) : kept[j] = given[k]

\* the first fenced block of the text holds a Solution object
HasFencedSolution(t) ==
  /\ FencedGroup(t).matched
  /\ json_loads(FencedGroup(t).text).kind = "object"
  /\ DOMAIN json_loads(FencedGroup(t).text).value = SolutionKeys

\* C15 as stated: for a text whose fenced json block holds a Solution
\* object the parser returns that object: the same keys with the same
\* values, whatever other brace spans the text has.
C15_RoundTrip ==
  (pc = "fn_parsed" /\ HasFencedSolution(fn_arg)) =>
     /\ ~fn_ret.raises
     /\ DOMAIN fn_ret.solution = SolutionKeys
     /\ fn_ret.solution = json_loads(FencedGroup(fn_arg).text).value


\* neither the fenced block nor the brace span of the text parses as JSON
NoJsonParses(t) ==
  /\ FencedGroup(t).matched => json_loads(FencedGroup(t).text).kind = "none"
  /\ BraceSpan(t).matched => json_loads(BraceSpan(t).text).kind = "none"

\* the LLM calls answered by a response that concludes the run
Concluding == { k \in OpIdx("llm") :
                  ops[k].answer = "stop" \/ (ops[k].answer = "other" /\ ops[k].tools = {}) }

\* C16: when no JSON parses from the final text (the empty text included)
\* the parser does not fail: the solution event carries the degraded
\* Solution, with the text verbatim as root_cause_analysis and empty
\* affected_files, key_insights and comments_to_add, and the run emits it.
C16_DegradedSolution ==
  \A k \in Concluding :
     NoJsonParses(ops[k].content) =>
        /\ ~parse_solution(ops[k].content).raises
        /\ raised.type # "AttributeError"
        /\ pc # "an_response" =>
             /\ Count("solution") = 1
             /\ Count("error") = 0
             /\ \A e \in EventIdx("solution") :
                  /\ e > ops[k].at
                  /\ DOMAIN events[e].data = SolutionKeys
                  /\ events[e].data["root_cause_analysis"] = ops[k].content
                  /\ events[e].data["affected_files"] = <<>>
                  /\ events[e].data["key_insights"] = <<>>
                  /\ events[e].data["comments_to_add"] = <<>>
                  /\ events[e].data = DegradedSolution(ops[k].content)

\* C16 witness: a run ended with the degraded Solution of a final text
\* whose fenced block and brace span are no JSON, and one of an empty text.
C16_Witness ==
  /\ Finished
  /\ \E k \in Concluding :
       /\ NoJsonParses(ops[k].content)
       /\ FencedGroup(ops[k].content).matched
       /\ BraceSpan(ops[k].content).matched
  /\ Count("solution") = 1

\* C16 second witness: the model returned no content.
C16_WitnessEmpty ==
  /\ Finished
  /\ \E k \in Concluding : ops[k].content = <<>>
  /\ Count("solution") = 1


\* the marker spliced into a truncated text of length n
Marker(n) == TruncHead \o IntStr(n) \o TruncTail

EndsWith(t, suffix) ==
  /\ Len(t) >= Len(suffix)
  /\ SubSeq(t, Len(t) - Len(suffix) + 1, Len(t)) = suffix

\* C17 as stated: for every text of length L and every budget
\* B = max_tokens_per_tool * 4, the output is the text when L <= B, and
\* otherwise has length B + len(marker), starts with text[:B/2] and ends
\* with text[-B/2:].
C17_TruncationPolicy ==
  pc = "fn_truncated" =>
     LET L == Len(fn_arg)
         B == max_tokens_per_tool * CharsPerToken
     IN IF L <= B
          THEN fn_ret = fn_arg
          ELSE /\ Len(fn_ret) = B + Len(Marker(L))
               /\ StartsWith(fn_ret, SliceTo(fn_arg, B \div 2))
               /\ EndsWith(fn_ret, SliceFrom(fn_arg, 0 - (B \div 2)))


\* C18 as stated: the tool_result of every result-bearing tool event is at
\* most 500 characters long, while the tool-role message of the same call
\* carries the full result.
C18_StreamCapped ==
  \A k \in OpIdx("exec") :
     /\ Len(events[ops[k].at + 1].tool_result) <= StreamCap
     /\ \E m \in 1..Len(History) :
          /\ History[m].role = "tool"
          /\ History[m].tool_call_id = ops[k].id
          /\ History[m].content = ops[k].result


\* the tool set the specification lists
SixTools == {"read_file", "list_files", "search_code", "run_command",
             "get_file_tree", "write_file"}

\* C19 as stated: the names offered to the LLM on every non-final turn are
\* the six tools, the executor dispatches exactly those six, and a call of
\* any other name fails.
C19_ToolSet ==
  /\ \A k \in OpIdx("llm") : ops[k].turn # max_turns - 1 => ops[k].tools = SixTools
  /\ DispatchedTools = SixTools
  /\ \A k \in OpIdx("exec") :
       CallsOfTurn(ops[k].id[1])[ops[k].id[2]].name \notin SixTools => ~ops[k].ok


\* the texts a log record holds
LoggedTexts(k) ==
  { logs[k].msg[i] : i \in 1..Len(logs[k].msg) } \cup
  { logs[k].extra[i] : i \in 1..Len(logs[k].extra) }

\* C20 as stated: no log record of an implementation run holds the raw
\* credential, and no logged text keeps an "@" separator with what precedes
\* it, on the success path and on every failure path of the clone.
C20_NoCredentialInLogs ==
  \A k \in 1..Len(logs) : GithubToken \notin LoggedTexts(k) /\ "@" \notin LoggedTexts(k)


\* the commands of the sync with upstream
SyncCmds == {"git remote add upstream", "git fetch upstream",
             "git rev-parse --verify upstream/main",
             "git rev-parse --verify upstream/master", "git checkout -B main"}
ForkClones == { k \in RunsOf("git clone") : mode = "implement" }
CmdAt(k) == IF k <= Len(ops) /\ ops[k].op = "run" THEN ops[k].cmd ELSE "none"

SeenExpired == { j \in Requests : ops[j].user = "owner" /\ ops[j].expired }
OwnerImplements == { k \in Requests : ops[k].op = "implement" /\ ops[k].user = "owner" }

\* C22 as stated: once the session was expired (a request of the owner found
\* the clock later than expires_at), every /implement request made then or
\* later is answered 410 and opens no implementation stream, and it leaves
\* the status "expired" (or as it was, when the database refused the write).
C22_ExpiredNeverImplemented ==
  \A k \in OwnerImplements :
    (\E j \in SeenExpired : j <= k) =>
       /\ ops[k].code = 410
       /\ ~ops[k].started
       /\ k = Len(ops) => status \in {"expired", ops[k].status}


\* C30 as stated: at most one implementation stream of the session is open
\* at any time, and an /implement request that finds the status
\* "implementing" or "completed" opens none.
C30_SingleRun ==
  /\ Cardinality(running) <= 1
  /\ \A k \in OwnerImplements :
       ops[k].status \in {"implementing", "completed"} => ~ops[k].started


\* the responses that stopped, once the loop has dealt with them
Stopped == { k \in OpIdx("llm") : ops[k].answer = "stop" /\ pc # "an_response" }

\* the events after event a, without a leading thinking event
AfterThinking(a) ==
  LET rest == SubSeq(events, a + 1, Len(events))
  IN IF rest # <<>> /\ rest[1].type = "thinking" THEN Tail(rest) ELSE rest

\* C23 as stated: a response with finish_reason stop ends the loop in its
\* turn, with or without tool calls in it: no tool of that turn is executed,
\* no tool event follows, the history is what the call was given, no LLM
\* call follows, and the events after the optional thinking event are
\* exactly status(PROPOSING), solution, status(DONE).
C23_StopConcludes ==
  \A k \in Stopped :
    LET body == AfterThinking(ops[k].at)
    IN /\ \A j \in OpIdx("llm") : j <= k
       /\ \A e \in OpIdx("exec") : ops[e].id[1] # ops[k].turn
       /\ \A e \in EventIdx("tool") : e <= ops[k].at
       /\ messages = Base(ops[k])
       /\ Len(body) >= 3
       /\ body[1] = StatusEvent("proposing")
       /\ body[2].type = "solution"
       /\ body[3] = StatusEvent("done")
       /\ \A i \in 4..Len(body) : body[i].type \in {"done", "error"}


\* the place of an operation in the executor's order of steps, 0 for what
\* is no step of the executor
StepRank(o) ==
  IF o.op = "write" THEN (IF o.path = "ANALYSIS.md" THEN 2 ELSE 3)
  ELSE IF o.op = "read" THEN 3
  ELSE IF o.op # "run" THEN 0
  ELSE IF o.cmd = "git checkout -b" THEN 1
  ELSE IF o.cmd \in {"git config", "git add"} THEN 4
  ELSE IF o.cmd = "git diff --cached --stat" THEN 5
  ELSE IF o.cmd = "git commit" THEN 6
  ELSE IF o.cmd = "git diff HEAD~1" THEN 7
  ELSE IF o.cmd = "git push" THEN 8
  ELSE 0
ExecutorSteps == { k \in 1..Len(ops) : mode = "implement" /\ StepRank(ops[k]) > 0 }
FatalSteps == { k \in ExecutorSteps :
                  ops[k].op = "run" /\
                  ops[k].cmd \in {"git checkout -b", "git add", "git commit", "git push"} }

\* C24 as stated: the executor's steps are run in the order branch, analysis
\* document, comments, stage, staged check, commit, diff, push; when the
\* branch, stage, commit or push command fails (non-zero exit or exception)
\* an error event follows and no later step is run; a result event occurs
\* only after a push that succeeded; the diff event comes before
\* status(PUSHING).
C24_ExecutorOrder ==
  /\ \A i, j \in ExecutorSteps : i < j => StepRank(ops[i]) <= StepRank(ops[j])
  /\ \A k \in FatalSteps :
       ops[k].outcome # "ok" =>
         /\ \E e \in EventIdx("error") : e > ops[k].at
         /\ \A j \in ExecutorSteps : j <= k
  /\ Count("result") > 0 => \E k \in RunsOf("git push") : ops[k].outcome = "ok"
  /\ \A e \in EventIdx("status") :
       events[e].step = "pushing" => \E d \in EventIdx("diff") : d < e


\* the operations a step has added
NewOps == { k \in 1..Len(ops') : k > Len(ops) }

\* what the entry c should do to the files: the comment stands immediately
\* before the line that was at position line_number, the other lines stay
ExpectedFiles(c) ==
  LET lines == files[c.file]
      n == c.line_number
  IN [files EXCEPT ![c.file] =
        SubSeq(lines, 1, n - 1) \o << Line(lines[n].indent, c.comment) >>
        \o SubSeq(lines, n, Len(lines))]

\* C25 as stated: one iteration of the comment loop changes the target file
\* if and only if the entry's file and comment are not empty and
\* 1 <= line_number <= number of lines (and the file could be read and
\* written); the comment is then inserted immediately before that line.
\* Every other entry leaves every file as it was. In both cases the run goes
\* on with the next entry.
C25_CommentInsert ==
  [][ (pc = "im_comments" /\ cidx <= Len(comments)) =>
        LET c == comments[cidx]
            valid == /\ c.file \in DOMAIN files
                     /\ c.comment # ""
                     /\ 1 <= c.line_number
                     /\ c.line_number <= Len(files[c.file])
            failed == \E k \in NewOps : ops'[k].raises
        IN /\ pc' = "im_comments"
           /\ cidx' = cidx + 1
           /\ raised' = raised
           /\ files' = IF valid /\ ~failed THEN ExpectedFiles(c) ELSE files
           /\ valid /\ ~failed => files' # files ]_vars


\* the position in a.py of the comment of entry i, 0 when it is not there
PlaceOf(i) ==
  LET lines == files["a.py"]
      at == { k \in 1..Len(lines) : lines[k].text = comments[i].comment }
  IN IF at = {} THEN 0 ELSE CHOOSE k \in at : TRUE

\* the entries processed so far that were aimed at a line of the original
\* a.py
Aimed == { i \in 1..(cidx - 1) :
             /\ i <= Len(comments)
             /\ comments[i].file = "a.py" /\ comments[i].comment # ""
             /\ comments[i].line_number \in 1..Len(RepoFiles["a.py"]) }

\* every entry of the list is aimed at a line of the original a.py, and no
\* two at the same line
DistinctLines ==
  /\ \A i \in 1..Len(comments) :
       /\ comments[i].file = "a.py" /\ comments[i].comment # ""
       /\ comments[i].line_number \in 1..Len(RepoFiles["a.py"])
  /\ \A i, j \in 1..Len(comments) :
       i # j => comments[i].line_number # comments[j].line_number

\* C28 as stated, for lists whose entries are aimed at different lines of
\* the original file: every comment inserted into the file stands
\* immediately before the line that was at its line_number in the file as
\* it was before the run inserted anything, whatever the order of the
\* entries.
C28_OriginalLineNumbers ==
  (mode = "comments" /\ DistinctLines) =>
    \A i \in Aimed :
      PlaceOf(i) # 0 =>
        /\ PlaceOf(i) < Len(files["a.py"])
        /\ files["a.py"][PlaceOf(i) + 1] = RepoFiles["a.py"][comments[i].line_number]

\* C26: once the stream of an /agent/implement request has ended, the stored
\* status of the session is "completed" if a result event was streamed and
\* "failed" otherwise; in particular it is no longer "implementing".
C26_FinalStatus ==
  (mode = "implement" /\ pc = "finished") =>
    status = IF \E e \in 1..Len(events) : events[e].type = "result"
               THEN "completed"
               ELSE "failed"

\* the response in hand neither stops nor requests tools, on a turn that is
\* not the final one
NoOpTurn ==
  /\ pc = "an_response"
  /\ response.finish_reason # "stop"
  /\ ~is_final_turn
  /\ response.calls = <<>>
  /\ ~response.malformed

\* the last collaborator call was an LLM call: the turn before this one
\* executed no tool
AfterNoOpTurn ==
  /\ pc = "an_loop"
  /\ HasTurn
  /\ ops # <<>>
  /\ ops[Len(ops)].op = "llm"

\* C27: a turn whose response neither stops nor requests tools, and that is
\* not the final turn, consumes one turn, emits nothing but a thinking event
\* with the response's text (none when the text is empty), calls no
\* collaborator and leaves the history as it was; the LLM call of the next
\* turn is given the messages of the call before it, apart from the
\* forced-conclusion instruction of a final turn.
C27_NoOpTurn ==
  [][ /\ NoOpTurn =>
           /\ turn' = turn + 1
           /\ messages' = messages
           /\ ops' = ops
           /\ events' = events \o Thinking(response)
           /\ Len(events') <= Len(events) + 1
           /\ pc' = "an_loop"
      /\ AfterNoOpTurn =>
           /\ Len(ops') = Len(ops) + 1
           /\ ops'[Len(ops')].op = "llm"
           /\ ops'[Len(ops')].turn = ops[Len(ops)].turn + 1
           /\ Base(ops'[Len(ops')]) = Base(ops[Len(ops)])
    ]_vars

\* C27 witness: a turn with prose and no tool call was followed by the LLM
\* call of the next turn, with one thinking event between the two calls.
C27_Witness ==
  \E k \in 1..(Len(ops) - 1) :
    /\ ops[k].op = "llm" /\ ops[k + 1].op = "llm"
    /\ ops[k].answer = "other"
    /\ ops[k].content # <<>>
    /\ ops[k + 1].at = ops[k].at + 1
    /\ events[ops[k + 1].at].type = "thinking"
    /\ ops[k + 1].messages = ops[k].messages

\* the texts an event carries in its message
EventTexts(e) ==
  IF "message" \in DOMAIN events[e]
    THEN { events[e].message[i] : i \in 1..Len(events[e].message) }
    ELSE {}

\* C29 as stated: no event of an implementation run carries the credential
\* of the fork URL in its message, on the success path and on every failure
\* path.
C29_NoCredentialInEvents ==
  mode = "implement" => \A e \in 1..Len(events) : GithubToken \notin EventTexts(e)

====
